---- MODULE Spec2Model ----
(***************************************************************************)
(* A model of fpga_loader_t::loadFPGA (src/fpga_loader.cpp): the HPS       *)
(* configures the FPGA through the FPGA manager's registers and streams an *)
(* rbf image into the configuration data port.                             *)
(*                                                                         *)
(* A run of loadFPGA is a record: its inputs, its locals, the control      *)
(* register it owns, what it printed and returned, and a log of the        *)
(* register writes it made and of the tests it decided; nreads counts the  *)
(* samples the poll loop in progress has taken without leaving the loop,   *)
(* sawReset tells that a read of stat made since nCONFIG was asserted has  *)
(* returned Reset mode.  The hardware's                                    *)
(* own registers (stat, gpio_ext_porta, dclkstat) are volatile: every read *)
(* of one returns a value the hardware chooses, drawn from a small set.    *)
(* Registers carry the bits the headers define (bits 0..11).               *)
(***************************************************************************)
EXTENDS Integers, Sequences, FiniteSets, TLC

VARIABLES run, twin

vars == <<run, twin>>

----------------------------------------------------------------------------
(* Bounds of the model *)

\* longest image, in 32-bit words
MaxImageLen == 2

\* the values an image word takes
Words == {1, 2}

----------------------------------------------------------------------------
(* Bit arithmetic on register values *)

RECURSIVE BitAnd(_, _)
BitAnd(a, b) ==
    IF a = 0 \/ b = 0 THEN 0
    ELSE (a % 2) * (b % 2) + 2 * BitAnd(a \div 2, b \div 2)

BitOr(a, b) == a + b - BitAnd(a, b)

\* a & ~m
BitClear(a, m) == a - BitAnd(a, m)

----------------------------------------------------------------------------
(* fpga_loader.hpp: the bit-field catalog *)

en == 1
nce == 2
nconfigpull == 4
cdratio == 192
axicfgen == 256
cfgwdth == 512

mode_reset == 1
mode_config == 2
mode_user == 4

ns == 1
cd == 2

dcntdone == 1

----------------------------------------------------------------------------
(* fpga_loader.cpp: the literals of loadFPGA *)

\* the MSEL[4:0] reading the program expects
MselExpected == 10
\* step 1: ctrl <- Step1Set | (ctrl & Step1Keep)
Step1Set == 1
Step1Keep == 704
\* step 8: the value written to gpio_porta_eoi
EoiAll == 4095
\* step 13b: the DCLK count
DclkCount == 4
\* the iteration budgets of the five poll loops
ResetPollBudget == 1000
ConfigPollBudget == 1000
PortAPollBudget == 1000
DclkPollBudget == 100
UserPollBudget == 1000

EXIT_SUCCESS == "EXIT_SUCCESS"
EXIT_FAILURE == "EXIT_FAILURE"
\* loadFPGA has not returned
Running == "running"

----------------------------------------------------------------------------
(* The environment: what open, mmap and the volatile registers may answer *)

\* open("/dev/mem"): a descriptor, or -1
OpenResults == {"fd", "-1"}

\* mmap: the mapping, or MAP_FAILED; it fails on a bad descriptor
MmapResults(fd) == IF fd = "-1" THEN {"MAP_FAILED"} ELSE {"mapped", "MAP_FAILED"}

\* the MSEL[4:0] readings the model draws
MselValues == {MselExpected, 31}

\* stat: mode in bits 2..0, MSEL in bits 7..3
StatValues == {8 * m + k : m \in MselValues, k \in 0 .. 7}

\* gpio_ext_porta: nSTATUS and CONF_DONE in bits 0 and 1; FPGA_POWER_ON (bit 11)
\* stands for the bits the poll masks away
PortAValues == {hi + k : hi \in {0, 2048}, k \in 0 .. 3}

\* dclkstat: dcntdone is its only bit
DclkStatValues == {0, dcntdone}

\* what ctrl may hold when loadFPGA is called: the reset value (cfgwdth), the
\* same with nCE, nCONFIG and axicfgen left set, and every field set
CtrlInitValues == {cfgwdth, cfgwdth + axicfgen + nconfigpull + nce, 1023}

Images == UNION {[1 .. n -> Words] : n \in 1 .. MaxImageLen}

----------------------------------------------------------------------------
(* fpga_loader.hpp: the register access primitives and the decoders *)

get_msel(v) == (v \div 8) % 32

\* mutant: the mask is one bit too wide (0x0f)
get_state_WideMask(v) == v % 16

get_state(v) == v % 8

print_state(v) ==
    CASE get_state(v) = 0 -> "Off"
      [] get_state(v) = 1 -> "Reset"
      [] get_state(v) = 2 -> "Configuration"
      [] get_state(v) = 3 -> "Initialization"
      [] get_state(v) = 4 -> "User"
      [] OTHER -> "Undetermined"

\* write32: the write reaches the device; ctrl keeps what was written
write32(s, reg, val) ==
    [s EXCEPT !.log = Append(@, <<"w", reg, val>>),
              !.ctrl = IF reg = "ctrl" THEN val ELSE @]

\* a pass/fail decision of the run, with the register field it was taken on
Decide(s, reg, val) == [s EXCEPT !.log = Append(@, <<"chk", reg, val>>)]

\* a test of a register value that the run goes on from either way
Note(s, reg, val) == [s EXCEPT !.log = Append(@, <<"test", reg, val>>)]

Goto(s, label) == [s EXCEPT !.pc = label]

\* printf / fprintf of one diagnostic line
Say(s, line) == [s EXCEPT !.out = Append(@, line)]

\* mutant: the user-mode failure site returns EXIT_SUCCESS
FailureResult_UserOk(line) ==
    IF line = "user_failed" THEN EXIT_SUCCESS ELSE EXIT_FAILURE

\* what a failure site returns after printing its line: return EXIT_FAILURE
FailureResult(line) == EXIT_FAILURE

\* mutant: a failure site hands the configuration inputs back to the pins
\* (ctrl &= ~en) before it returns
FailReturn_HandsBack(s, line) ==
    [Say(write32(s, "ctrl", BitClear(s.ctrl, en)), line)
        EXCEPT !.ret = FailureResult(line), !.pc = "done"]

\* a failure site: the message, then the return
FailReturn(s, line) ==
    [Say(s, line) EXCEPT !.ret = FailureResult(line), !.pc = "done"]

----------------------------------------------------------------------------
(* fpga_loader.cpp: loadFPGA, one operator per step.  s is the run; v is   *)
(* what the environment answers to the step's read (or call).              *)

\* int fd = open("/dev/mem", ...): the result is not checked
OpenDevMem(s, r) == [s EXCEPT !.fd = r, !.pc = "mmap"]

\* base_addr = mmap(...); if (!base_addr) exit(...): neither answer of mmap
\* is a null pointer, so the run goes on
MapRegisters(s, r) == [s EXCEPT !.base = r, !.pc = "msel"]

\* a register access through MAP_FAILED: the process is killed
Segfault(s) == Goto(s, "crashed")

\* mutant: a strap mismatch ends the run
MselCheck_Aborts(s, v) ==
    IF get_msel(v) # MselExpected
    THEN [Say(s, "msel_warning") EXCEPT !.ret = EXIT_FAILURE, !.pc = "done"]
    ELSE Goto(s, "step0a")

\* if (get_msel(fpgamgr_regs) != 0x0a) fprintf(stderr, ...)
MselCheck(s, v) ==
    Goto(IF get_msel(v) # MselExpected THEN Say(s, "msel_warning") ELSE s,
         "step0a")

\* mutant: the gbl field of the system manager is written as well
Step0a_AlsoGbl(s) ==
    Goto(write32(write32(s, "sysmgr.module", 0), "sysmgr.gbl", 0), "step1")

\* Step 0.a: write32(&sysmgr_regs->module, 0)
Step0a(s) == Goto(write32(s, "sysmgr.module", 0), "step1")

\* Step 1: write32(ctrl, 0x01 | (read32(ctrl) & 0x02c0))
Step1(s) ==
    Goto(write32(s, "ctrl", BitOr(Step1Set, BitAnd(s.ctrl, Step1Keep))), "step2")

\* Step 2: ctrl &= ~nce
Step2(s) == Goto(write32(s, "ctrl", BitClear(s.ctrl, nce)), "step3")

\* mutant: the value written is built from the bit alone
Step3_WritesEnAlone(s) == Goto(write32(s, "ctrl", en), "step4")

\* Step 3: ctrl |= en
Step3(s) == Goto(write32(s, "ctrl", BitOr(s.ctrl, en)), "step4")

\* Step 4: ctrl |= nconfigpull; then the reset poll starts with i = 0
Step4(s) ==
    [write32(s, "ctrl", BitOr(s.ctrl, nconfigpull))
        EXCEPT !.pc = "step5", !.i = 0]

\* get_state(fpgamgr_regs): one read of stat
ReadState(s, v) ==
    [s EXCEPT !.sawReset = @ \/ get_state(v) = mode_reset]

\* mutant: the loop counter is not advanced
ModePollSample_NoIncrement(s, v, want, exit) ==
    IF get_state(v) = want
    THEN [ReadState(s, v) EXCEPT !.pc = exit, !.i = 0, !.nreads = 0]
    ELSE [ReadState(s, v) EXCEPT !.nreads = @ + 1]

\* one iteration of a mode poll: break on the wanted mode, else usleep, i++
ModePollSample(s, v, want, exit) ==
    IF get_state(v) = want
    THEN [ReadState(s, v) EXCEPT !.pc = exit, !.i = 0, !.nreads = 0]
    ELSE [ReadState(s, v) EXCEPT !.i = @ + 1, !.nreads = @ + 1]

\* the loop condition i < budget fails
PollExhausted(s, exit) == [s EXCEPT !.pc = exit, !.i = 0, !.nreads = 0]

\* the re-read after a mode poll: fail, or go on (through the debug print)
ModeCheck(s, v, want, line, dbg, next) ==
    IF get_state(v) # want
    THEN FailReturn(Decide(ReadState(s, v), "stat", get_state(v)), line)
    ELSE Goto(Decide(ReadState(s, v), "stat", get_state(v)),
              IF s.debug THEN dbg ELSE next)

\* mutant: the debug branch also acknowledges the port-A interrupts
DebugPrint_AlsoAcks(s, v, next) ==
    Goto(write32(Say(ReadState(s, v), "state"), "gpio_porta_eoi", EoiAll), next)

\* if (debug) printf("%s state", print_state(fpgamgr_regs)): one more read of
\* stat; out keeps that a state line was printed, the label is print_state(v)
DebugPrint(s, v, next) == Goto(Say(ReadState(s, v), "state"), next)

\* Step 5: for (i = 0; i < 1000; i++) { if (get_state == mode_reset) break; }
ResetPollSample(s, v) == ModePollSample(s, v, mode_reset, "step5chk")

ResetPollExhausted(s) == PollExhausted(s, "step5chk")

\* mutant: the failure line is printed but the return is missing
ResetCheck_FallsThrough(s, v) ==
    LET t == Decide(ReadState(s, v), "stat", get_state(v))
    IN  Goto(IF get_state(v) # mode_reset THEN Say(t, "reset_failed") ELSE t,
             IF s.debug THEN "step5dbg" ELSE "step6")

\* mutant: the re-read is made but its result is not tested
ResetCheck_NotTested(s, v) ==
    Goto(ReadState(s, v), IF s.debug THEN "step5dbg" ELSE "step6")

\* if (get_state != mode_reset) { "reset state transition failed"; return }
ResetCheck(s, v) ==
    ModeCheck(s, v, mode_reset, "reset_failed", "step5dbg", "step6")

ResetDebug(s, v) == DebugPrint(s, v, "step6")

\* mutant: nconfigpull is not cleared
Step6_NoRelease(s) ==
    [write32(s, "ctrl", s.ctrl) EXCEPT !.pc = "step7", !.i = 0]

\* Step 6: ctrl &= ~nconfigpull; then the configuration poll
Step6(s) ==
    [write32(s, "ctrl", BitClear(s.ctrl, nconfigpull))
        EXCEPT !.pc = "step7", !.i = 0]

\* Step 7
ConfigPollSample(s, v) == ModePollSample(s, v, mode_config, "step7chk")

ConfigPollExhausted(s) == PollExhausted(s, "step7chk")

ConfigCheck(s, v) ==
    ModeCheck(s, v, mode_config, "config_failed", "step7dbg", "step8")

ConfigDebug(s, v) == DebugPrint(s, v, "step8")

\* Step 8: write32(&gpio_porta_eoi, 0x00000fff)
Step8(s) ==
    [write32(s, "gpio_porta_eoi", EoiAll) EXCEPT !.pc = "step9"]

\* mutant: axicfgen is not set
Step9_SkipsEnable(s) ==
    [write32(s, "ctrl", s.ctrl) EXCEPT !.pc = "step10", !.i = 0]

\* Step 9: ctrl |= axicfgen; then the streaming loop starts with i = 0
Step9(s) ==
    [write32(s, "ctrl", BitOr(s.ctrl, axicfgen)) EXCEPT !.pc = "step10", !.i = 0]

\* mutant: the pointer is not advanced
StreamWord_NoAdvance(s) ==
    [write32(s, "data", s.rbf_data[s.rp + 1]) EXCEPT !.i = @ + 1]

\* Step 10: write32(fpgamgr_data, *rbf_data++), i++
StreamWord(s) ==
    [write32(s, "data", s.rbf_data[s.rp + 1]) EXCEPT !.rp = @ + 1, !.i = @ + 1]

\* i < rbf_size fails: the port-A poll starts with i = 0
StreamDone(s) == [s EXCEPT !.pc = "step11", !.i = 0]

\* Step 11: status = read32(&gpio_ext_porta) & (cd | ns); both 0: fail at once;
\* both 1: break; else usleep, i++
PortAPollSample(s, v) ==
    LET status == BitAnd(v, cd + ns)
        t == [s EXCEPT !.status = status]
    IN  IF status = 0
        THEN FailReturn(Decide([t EXCEPT !.i = 0, !.nreads = 0],
                               "gpio_ext_porta", status), "init_failed")
        ELSE IF status = cd + ns
             THEN [t EXCEPT !.pc = "step11chk", !.i = 0, !.nreads = 0]
             ELSE [t EXCEPT !.i = @ + 1, !.nreads = @ + 1]

PortAPollExhausted(s) == PollExhausted(s, "step11chk")

\* mutant: the status of the last sample is not tested
PortACheck_NotTested(s) ==
    Goto(Decide(s, "gpio_ext_porta", s.status),
         IF s.debug THEN "step11dbg" ELSE "step12")

\* if (status != (cd | ns)) { "initialization state transition failed"; return }
\* decided on the last sample, not on a new read
PortACheck(s) ==
    IF s.status # cd + ns
    THEN FailReturn(Decide(s, "gpio_ext_porta", s.status), "init_failed")
    ELSE Goto(Decide(s, "gpio_ext_porta", s.status),
              IF s.debug THEN "step11dbg" ELSE "step12")

PortADebug(s, v) == DebugPrint(s, v, "step12")

\* mutant: axicfgen is not cleared
Step12_KeepsAxicfgen(s) ==
    [write32(s, "ctrl", s.ctrl) EXCEPT !.pc = "step13a"]

\* Step 12: ctrl &= ~axicfgen
Step12(s) ==
    [write32(s, "ctrl", BitClear(s.ctrl, axicfgen))
        EXCEPT !.pc = "step13a"]

\* mutant: dclkstat is written whatever was read
Step13a_AlwaysClears(s, v) ==
    Goto(write32(Note(s, "dclkstat", v), "dclkstat", 1), "step13b")

\* Step 13a: if (read32(&dclkstat) != 0) write32(&dclkstat, 1)
Step13a(s, v) ==
    LET t == Note(s, "dclkstat", v)
    IN  Goto(IF v # 0 THEN write32(t, "dclkstat", 1) ELSE t, "step13b")

\* Step 13b: write32(&dclkcnt, 4); then the DCLK poll starts with i = 0
Step13b(s) ==
    [write32(s, "dclkcnt", DclkCount) EXCEPT !.pc = "step14", !.i = 0]

\* Step 14: status = read32(&dclkstat) & dcntdone; set: break; else usleep, i++
DclkPollSample(s, v) ==
    LET status == BitAnd(v, dcntdone)
        t == [s EXCEPT !.status = status]
    IN  IF status = dcntdone
        THEN [t EXCEPT !.pc = "step14chk", !.i = 0, !.nreads = 0]
        ELSE [t EXCEPT !.i = @ + 1, !.nreads = @ + 1]

DclkPollExhausted(s) == PollExhausted(s, "step14chk")

\* mutant: the status of the last sample is not tested
DclkCheck_NotTested(s) == Goto(Decide(s, "dclkstat", s.status), "step15")

\* if (status != dcntdone) { "time waiting for DCLKs to be sent"; return }
DclkCheck(s) ==
    IF s.status # dcntdone
    THEN FailReturn(Decide(s, "dclkstat", s.status), "dclk_failed")
    ELSE Goto(Decide(s, "dclkstat", s.status), "step15")

\* Step 15: write32(&dclkstat, 1); then the user-mode poll starts with i = 0
Step15(s) ==
    [write32(s, "dclkstat", 1) EXCEPT !.pc = "step16", !.i = 0]

\* Step 16
UserPollSample(s, v) == ModePollSample(s, v, mode_user, "step16chk")

UserPollExhausted(s) == PollExhausted(s, "step16chk")

UserCheck(s, v) ==
    ModeCheck(s, v, mode_user, "user_failed", "step16dbg", "step17")

UserDebug(s, v) == DebugPrint(s, v, "step17")

\* mutant: the wrong bit is cleared
Step17_ClearsNce(s) ==
    [write32(s, "ctrl", BitClear(s.ctrl, nce)) EXCEPT !.pc = "cleanup"]

\* Step 17: ctrl &= ~en
Step17(s) ==
    [write32(s, "ctrl", BitClear(s.ctrl, en)) EXCEPT !.pc = "cleanup"]

\* munmap(base_addr, len); close(fd); return EXIT_SUCCESS
Cleanup(s) ==
    [s EXCEPT !.base = "unmapped", !.fd = "closed", !.ret = EXIT_SUCCESS,
              !.pc = "done"]

----------------------------------------------------------------------------
(* The state machine of one run *)

\* loadFPGA(rbf_data, rbf_size, debug) is entered
Entered(image, debug, ctrl0) ==
    [pc |-> "open", rbf_data |-> image, rbf_size |-> Len(image), debug |-> debug,
     fd |-> "none", base |-> "none", rp |-> 0, i |-> 0, status |-> 0,
     ctrl |-> ctrl0, log |-> <<>>, out |-> <<>>, ret |-> Running,
     nreads |-> 0, sawReset |-> FALSE]

\* loadFPGA(rbf_data, rbf_size, debug) is entered with the size the caller
\* passes
EnteredWith(image, size, debug, ctrl0) ==
    [Entered(image, debug, ctrl0) EXCEPT !.rbf_size = size]

\* no second run
Idle == [pc |-> "idle"]

Init ==
    /\ run \in {Entered(image, debug, ctrl0) :
                    image \in Images, debug \in BOOLEAN, ctrl0 \in CtrlInitValues}
    /\ twin = Idle

At(label) == run.pc = label

\* the run takes the step to t
Becomes(t) == run' = t /\ UNCHANGED twin

DoOpen == At("open") /\ \E r \in OpenResults : Becomes(OpenDevMem(run, r))

DoMmap == At("mmap") /\ \E r \in MmapResults(run.fd) : Becomes(MapRegisters(run, r))

DoSegfault == At("msel") /\ run.base # "mapped" /\ Becomes(Segfault(run))

DoMselCheck ==
    At("msel") /\ run.base = "mapped" /\ \E v \in StatValues : Becomes(MselCheck(run, v))

DoStep0a == At("step0a") /\ Becomes(Step0a(run))

DoStep1 == At("step1") /\ Becomes(Step1(run))

DoStep2 == At("step2") /\ Becomes(Step2(run))

DoStep3 == At("step3") /\ Becomes(Step3(run))

DoStep4 == At("step4") /\ Becomes(Step4(run))

DoResetPollSample ==
    /\ At("step5") /\ run.i < ResetPollBudget
    /\ \E v \in StatValues : Becomes(ResetPollSample(run, v))

DoResetPollExhausted ==
    At("step5") /\ ~(run.i < ResetPollBudget) /\ Becomes(ResetPollExhausted(run))

DoResetCheck == At("step5chk") /\ \E v \in StatValues : Becomes(ResetCheck(run, v))

DoResetDebug == At("step5dbg") /\ \E v \in StatValues : Becomes(ResetDebug(run, v))

DoStep6 == At("step6") /\ Becomes(Step6(run))

DoConfigPollSample ==
    /\ At("step7") /\ run.i < ConfigPollBudget
    /\ \E v \in StatValues : Becomes(ConfigPollSample(run, v))

DoConfigPollExhausted ==
    At("step7") /\ ~(run.i < ConfigPollBudget) /\ Becomes(ConfigPollExhausted(run))

DoConfigCheck == At("step7chk") /\ \E v \in StatValues : Becomes(ConfigCheck(run, v))

DoConfigDebug == At("step7dbg") /\ \E v \in StatValues : Becomes(ConfigDebug(run, v))

DoStep8 == At("step8") /\ Becomes(Step8(run))

DoStep9 == At("step9") /\ Becomes(Step9(run))

DoStreamWord == At("step10") /\ run.i < run.rbf_size /\ Becomes(StreamWord(run))

DoStreamDone == At("step10") /\ ~(run.i < run.rbf_size) /\ Becomes(StreamDone(run))

DoPortAPollSample ==
    /\ At("step11") /\ run.i < PortAPollBudget
    /\ \E v \in PortAValues : Becomes(PortAPollSample(run, v))

DoPortAPollExhausted ==
    At("step11") /\ ~(run.i < PortAPollBudget) /\ Becomes(PortAPollExhausted(run))

DoPortACheck == At("step11chk") /\ Becomes(PortACheck(run))

DoPortADebug == At("step11dbg") /\ \E v \in StatValues : Becomes(PortADebug(run, v))

DoStep12 == At("step12") /\ Becomes(Step12(run))

DoStep13a == At("step13a") /\ \E v \in DclkStatValues : Becomes(Step13a(run, v))

DoStep13b == At("step13b") /\ Becomes(Step13b(run))

DoDclkPollSample ==
    /\ At("step14") /\ run.i < DclkPollBudget
    /\ \E v \in DclkStatValues : Becomes(DclkPollSample(run, v))

DoDclkPollExhausted ==
    At("step14") /\ ~(run.i < DclkPollBudget) /\ Becomes(DclkPollExhausted(run))

DoDclkCheck == At("step14chk") /\ Becomes(DclkCheck(run))

DoStep15 == At("step15") /\ Becomes(Step15(run))

DoUserPollSample ==
    /\ At("step16") /\ run.i < UserPollBudget
    /\ \E v \in StatValues : Becomes(UserPollSample(run, v))

DoUserPollExhausted ==
    At("step16") /\ ~(run.i < UserPollBudget) /\ Becomes(UserPollExhausted(run))

DoUserCheck == At("step16chk") /\ \E v \in StatValues : Becomes(UserCheck(run, v))

DoUserDebug == At("step16dbg") /\ \E v \in StatValues : Becomes(UserDebug(run, v))

DoStep17 == At("step17") /\ Becomes(Step17(run))

DoCleanup == At("cleanup") /\ Becomes(Cleanup(run))

Next ==
    \/ DoOpen \/ DoMmap \/ DoSegfault \/ DoMselCheck
    \/ DoStep0a \/ DoStep1 \/ DoStep2 \/ DoStep3 \/ DoStep4
    \/ DoResetPollSample \/ DoResetPollExhausted \/ DoResetCheck \/ DoResetDebug
    \/ DoStep6
    \/ DoConfigPollSample \/ DoConfigPollExhausted \/ DoConfigCheck \/ DoConfigDebug
    \/ DoStep8 \/ DoStep9 \/ DoStreamWord \/ DoStreamDone
    \/ DoPortAPollSample \/ DoPortAPollExhausted \/ DoPortACheck \/ DoPortADebug
    \/ DoStep12 \/ DoStep13a \/ DoStep13b
    \/ DoDclkPollSample \/ DoDclkPollExhausted \/ DoDclkCheck
    \/ DoStep15
    \/ DoUserPollSample \/ DoUserPollExhausted \/ DoUserCheck \/ DoUserDebug
    \/ DoStep17 \/ DoCleanup

Spec == Init /\ [][Next]_vars

----------------------------------------------------------------------------
(* Two runs on the same inputs whose hardware answers alike, but for the   *)
(* MSEL straps: run reads the expected straps, twin reads others.          *)

\* what the environment may answer to the step s is about to take
Answers(s) ==
    CASE s.pc = "open" -> OpenResults
      [] s.pc = "mmap" -> MmapResults(s.fd)
      [] s.pc \in {"msel", "step5", "step5chk", "step5dbg", "step7", "step7chk",
                   "step7dbg", "step11dbg", "step16", "step16chk", "step16dbg"}
            -> StatValues
      [] s.pc = "step11" -> PortAValues
      [] s.pc \in {"step13a", "step14"} -> DclkStatValues
      [] OTHER -> {0}

\* the register the step s is about to take reads for its test or its print
\* ("none": the step reads no register, or only ctrl for its own write)
RegisterRead(s) ==
    CASE s.pc \in {"msel", "step5", "step5chk", "step5dbg", "step7", "step7chk",
                   "step7dbg", "step11dbg", "step16", "step16chk", "step16dbg"}
            -> "stat"
      [] s.pc = "step11" /\ s.i < PortAPollBudget -> "gpio_ext_porta"
      [] s.pc = "step13a" -> "dclkstat"
      [] s.pc = "step14" /\ s.i < DclkPollBudget -> "dclkstat"
      [] OTHER -> "none"

\* the step of loadFPGA that s takes when the environment answers v
Exec(s, v) ==
    CASE s.pc = "open" -> OpenDevMem(s, v)
      [] s.pc = "mmap" -> MapRegisters(s, v)
      [] s.pc = "msel" -> IF s.base = "mapped" THEN MselCheck(s, v) ELSE Segfault(s)
      [] s.pc = "step0a" -> Step0a(s)
      [] s.pc = "step1" -> Step1(s)
      [] s.pc = "step2" -> Step2(s)
      [] s.pc = "step3" -> Step3(s)
      [] s.pc = "step4" -> Step4(s)
      [] s.pc = "step5" ->
            IF s.i < ResetPollBudget
            THEN ResetPollSample(s, v) ELSE ResetPollExhausted(s)
      [] s.pc = "step5chk" -> ResetCheck(s, v)
      [] s.pc = "step5dbg" -> ResetDebug(s, v)
      [] s.pc = "step6" -> Step6(s)
      [] s.pc = "step7" ->
            IF s.i < ConfigPollBudget
            THEN ConfigPollSample(s, v) ELSE ConfigPollExhausted(s)
      [] s.pc = "step7chk" -> ConfigCheck(s, v)
      [] s.pc = "step7dbg" -> ConfigDebug(s, v)
      [] s.pc = "step8" -> Step8(s)
      [] s.pc = "step9" -> Step9(s)
      [] s.pc = "step10" -> IF s.i < s.rbf_size THEN StreamWord(s) ELSE StreamDone(s)
      [] s.pc = "step11" ->
            IF s.i < PortAPollBudget
            THEN PortAPollSample(s, v) ELSE PortAPollExhausted(s)
      [] s.pc = "step11chk" -> PortACheck(s)
      [] s.pc = "step11dbg" -> PortADebug(s, v)
      [] s.pc = "step12" -> Step12(s)
      [] s.pc = "step13a" -> Step13a(s, v)
      [] s.pc = "step13b" -> Step13b(s)
      [] s.pc = "step14" ->
            IF s.i < DclkPollBudget
            THEN DclkPollSample(s, v) ELSE DclkPollExhausted(s)
      [] s.pc = "step14chk" -> DclkCheck(s)
      [] s.pc = "step15" -> Step15(s)
      [] s.pc = "step16" ->
            IF s.i < UserPollBudget
            THEN UserPollSample(s, v) ELSE UserPollExhausted(s)
      [] s.pc = "step16chk" -> UserCheck(s, v)
      [] s.pc = "step16dbg" -> UserDebug(s, v)
      [] s.pc = "step17" -> Step17(s)
      [] s.pc = "cleanup" -> Cleanup(s)

PairInit ==
    /\ run \in {Entered(image, debug, ctrl0) :
                    image \in Images, debug \in BOOLEAN, ctrl0 \in CtrlInitValues}
    /\ twin = run

\* the strap check: the two reads of stat differ in the MSEL bits alone
PairMselCheck ==
    /\ run.pc = "msel" /\ twin.pc = "msel" /\ run.base = "mapped"
    /\ \E v, w \in StatValues :
        /\ get_msel(v) = MselExpected
        /\ get_msel(w) # MselExpected
        /\ get_state(v) = get_state(w)
        /\ run' = MselCheck(run, v)
        /\ twin' = MselCheck(twin, w)

\* every other step: both runs get the same answer
PairStep ==
    /\ twin.pc = run.pc
    /\ run.pc \notin {"done", "crashed"}
    /\ ~(run.pc = "msel" /\ run.base = "mapped")
    /\ \E v \in Answers(run) : run' = Exec(run, v) /\ twin' = Exec(twin, v)

PairNext == PairMselCheck \/ PairStep

PairSpec == PairInit /\ [][PairNext]_vars

\* the thread keeps running: usleep returns and every access completes
FairSpec == Spec /\ WF_vars(Next)

----------------------------------------------------------------------------
(* Two runs on the same image whose hardware answers alike at every step,  *)
(* entered with ctrl holding two different values.                         *)

CtrlPairInit ==
    /\ run \in {Entered(image, debug, ctrl0) :
                    image \in Images, debug \in BOOLEAN, ctrl0 \in CtrlInitValues}
    /\ twin \in {Entered(run.rbf_data, run.debug, ctrl0) :
                    ctrl0 \in CtrlInitValues \ {run.ctrl}}

\* both runs take their next step and get the same answer
LockStep ==
    /\ twin.pc = run.pc
    /\ run.pc \notin {"done", "crashed"}
    /\ \E v \in Answers(run) : run' = Exec(run, v) /\ twin' = Exec(twin, v)

CtrlPairSpec == CtrlPairInit /\ [][LockStep]_vars

----------------------------------------------------------------------------
(* Two calls on the same image and the same ctrl, run with debug off and   *)
(* twin with debug on.  The hardware answers both alike at every step they *)
(* have in common; the reads that only the debug call makes get any        *)
(* answer.                                                                 *)

\* where the call is when debug has sent it to a print of the state
DebugSites == {"step5dbg", "step7dbg", "step11dbg", "step16dbg"}

DebugPairInit ==
    /\ run \in {Entered(image, FALSE, ctrl0) :
                    image \in Images, ctrl0 \in CtrlInitValues}
    /\ twin = [run EXCEPT !.debug = TRUE]

\* if (debug) { printf(... print_state(fpgamgr_regs)) } in the debug call
DebugOnlyStep ==
    /\ twin.pc \in DebugSites
    /\ \E v \in Answers(twin) : twin' = Exec(twin, v)
    /\ run' = run

DebugPairNext == LockStep \/ DebugOnlyStep

DebugPairSpec == DebugPairInit /\ [][DebugPairNext]_vars

----------------------------------------------------------------------------
(* A run of loadFPGA with a watcher: twin.hit tells that the mode poll in  *)
(* progress, or the one whose check the run is at or has failed, was left  *)
(* by a sample that read the wanted mode.                                  *)

Unwatched == [pc |-> "watch", hit |-> FALSE]

\* the mode the poll or the check at s.pc waits for
WantedMode(s) ==
    CASE s.pc \in {"step5", "step5chk"} -> mode_reset
      [] s.pc \in {"step7", "step7chk"} -> mode_config
      [] s.pc \in {"step16", "step16chk"} -> mode_user

\* the step s takes on the answer v is a sample of its mode poll
IsModeSample(s) ==
    \/ s.pc = "step5" /\ s.i < ResetPollBudget
    \/ s.pc = "step7" /\ s.i < ConfigPollBudget
    \/ s.pc = "step16" /\ s.i < UserPollBudget

Watch(w, s, v) ==
    CASE s.pc \in {"step5", "step7", "step16"} ->
            [w EXCEPT !.hit = IsModeSample(s) /\ get_state(v) = WantedMode(s)]
      [] s.pc \in {"step5chk", "step7chk", "step16chk"} ->
            [w EXCEPT !.hit = @ /\ get_state(v) # WantedMode(s)]
      [] OTHER -> w

WatchInit ==
    /\ run \in {Entered(image, debug, ctrl0) :
                    image \in Images, debug \in BOOLEAN, ctrl0 \in CtrlInitValues}
    /\ twin = Unwatched

WatchStep ==
    /\ run.pc \notin {"done", "crashed"}
    /\ \E v \in Answers(run) : run' = Exec(run, v) /\ twin' = Watch(twin, run, v)

WatchSpec == WatchInit /\ [][WatchStep]_vars

----------------------------------------------------------------------------
(* fpga_loader.hpp: print_state called for diagnostics, on its own.  The   *)
(* record holds the stat and ctrl registers, the label the last call       *)
(* returned, the label the call before it returned, and whether the        *)
(* hardware changed stat between the two.                                  *)

\* calls of print_state the model follows
MaxCalls == 2

\* stat: every value of the mode and MSEL bits
DecodeStatValues == 0 .. 255

Diagnosed(stat0, ctrl0) ==
    [pc |-> "decode", stat |-> stat0, ctrl |-> ctrl0, label |-> "none",
     prev |-> "none", changed |-> FALSE, same |-> FALSE, calls |-> 0]

\* mutant: reading stat clears its mode bits (a read-to-clear register)
PrintStateCall_ReadClears(s) ==
    [s EXCEPT !.prev = s.label, !.label = print_state(s.stat),
              !.stat = s.stat - get_state(s.stat),
              !.same = ~s.changed, !.changed = FALSE, !.calls = @ + 1]

\* print_state(fpgamgr_regs): get_state reads stat once, the switch picks the
\* label; nothing is written
PrintStateCall(s) ==
    [s EXCEPT !.prev = s.label, !.label = print_state(s.stat),
              !.same = ~s.changed, !.changed = FALSE, !.calls = @ + 1]

\* the hardware moves stat to another value
StatChanges(s, v) == [s EXCEPT !.stat = v, !.changed = TRUE]

DecodeInit ==
    /\ run \in {Diagnosed(stat0, ctrl0) :
                    stat0 \in DecodeStatValues, ctrl0 \in CtrlInitValues}
    /\ twin = Idle

DoPrintState ==
    At("decode") /\ run.calls < MaxCalls /\ Becomes(PrintStateCall(run))

DoStatChange ==
    /\ At("decode")
    /\ \E v \in DecodeStatValues : v # run.stat /\ Becomes(StatChanges(run, v))

DecodeNext == DoPrintState \/ DoStatChange

DecodeSpec == DecodeInit /\ [][DecodeNext]_vars

----------------------------------------------------------------------------
(* main.cpp: main, the caller of loadFPGA.  Here twin is main's frame and  *)
(* run is the call of loadFPGA it makes (Idle until the call).             *)

\* the size of the buffer main reads the file into: 8*1024*1024 bytes
BufBytes == 8388608

\* the command lines the model draws: the options, in order
OptionLists ==
    {<<>>, <<"--debug">>, <<"--quiet">>, <<"--help">>, <<"--bogus">>,
     <<"--q", "--help">>}

\* the file named on the command line: no name given, a name fopen fails on,
\* or a file of n bytes whose whole words are w
Files ==
    {[name |-> k, bytes |-> 0, words |-> <<>>] : k \in {"none", "unreadable"}}
    \cup
    {[name |-> "rbf", bytes |-> n, words |-> w] :
        n \in 0 .. 4 * MaxImageLen, w \in UNION {[1 .. k -> Words] : k \in 0 .. MaxImageLen}}

\* malloc: NULL, an aligned address, or (an allocator that does not align)
\* an address that is not a multiple of 4
MallocResults == {0, 4096, 4098}

Started(opts, file) ==
    [pc |-> "getopt", opts |-> opts, file |-> file, debug |-> FALSE,
     quiet |-> FALSE, buf |-> 0, nbytes |-> 0, size |-> 0, read |-> FALSE,
     out |-> <<>>, ret |-> Running]

\* main ends with the status r
MainReturn(m, r) == [m EXCEPT !.ret = r, !.pc = "exit"]

\* one turn of the getopt_long loop: -1 ends it; '?' and --help print the
\* usage and return true (the value 1, which is EXIT_FAILURE); --debug and
\* --q / --quiet set their flag
Getopt(m) ==
    IF m.opts = <<>> THEN [m EXCEPT !.pc = "argcheck"]
    ELSE LET o == Head(m.opts)
             n == [m EXCEPT !.opts = Tail(@)]
         IN  CASE o = "--help" -> MainReturn([n EXCEPT !.out = Append(@, "usage")], EXIT_FAILURE)
               [] o = "--debug" -> [n EXCEPT !.debug = TRUE]
               [] o \in {"--q", "--quiet"} -> [n EXCEPT !.quiet = TRUE]
               [] OTHER ->
                    MainReturn([n EXCEPT !.out = @ \o <<"unrecognized", "usage">>],
                               EXIT_FAILURE)

\* if (argv[optind] == NULL) { "missing filename"; return EXIT_FAILURE }
ArgCheck(m) ==
    IF m.file.name = "none"
    THEN MainReturn([m EXCEPT !.out = @ \o <<"missing_filename", "usage">>],
                    EXIT_FAILURE)
    ELSE [m EXCEPT !.pc = "fopen"]

\* fd = fopen(...); if (!fd) { perror; return EXIT_FAILURE }
OpenFile(m) ==
    IF m.file.name = "unreadable"
    THEN MainReturn([m EXCEPT !.out = Append(@, "perror")], EXIT_FAILURE)
    ELSE [m EXCEPT !.pc = "malloc"]

\* buf = (uint32_t*)malloc(8*1024*1024): the result is not checked
Malloc(m, a) == [m EXCEPT !.buf = a, !.pc = "fread"]

\* fread through a null buf: the read faults
FreadFaults(m) == [m EXCEPT !.pc = "crashed"]

\* size = fread(buf, 1, 8*1024*1024, fd); if (size == 0) { perror; return };
\* if (!quiet) printf("Successfully read file ...")
Fread(m, got) ==
    LET n == [m EXCEPT !.nbytes = got, !.size = got, !.read = TRUE]
    IN  IF got = 0
        THEN MainReturn([n EXCEPT !.out = Append(@, "perror")], EXIT_FAILURE)
        ELSE [n EXCEPT !.pc = "aligncheck",
                       !.out = IF m.quiet THEN @ ELSE Append(@, "read_ok")]

\* if ((addr & 0x03) != 0) { "not aligned properly"; exit(EXIT_FAILURE) }
AlignCheck(m) ==
    IF m.buf % 4 # 0
    THEN MainReturn([m EXCEPT !.out = Append(@, "not_aligned")], EXIT_FAILURE)
    ELSE [m EXCEPT !.pc = "lencheck"]

\* mutant: the length is not checked
LengthCheck_Skipped(m) == [m EXCEPT !.size = @ \div 4, !.pc = "call"]

\* if ((size & 0x03) != 0) { "not exact multiple"; exit(EXIT_FAILURE) };
\* size /= sizeof(uint32_t)
LengthCheck(m) ==
    IF m.size % 4 # 0
    THEN MainReturn([m EXCEPT !.out = Append(@, "not_multiple")], EXIT_FAILURE)
    ELSE [m EXCEPT !.size = @ \div 4, !.pc = "call"]

\* int ret = fpga_loader.loadFPGA(buf, size, debug): the words of the buffer
CallLoadFPGA(m, ctrl0) ==
    EnteredWith(SubSeq(m.file.words, 1, m.size), m.size, m.debug, ctrl0)

\* free(buf); if (!quiet && ret == EXIT_SUCCESS) printf(...); return ret
AfterLoadFPGA(m, r) ==
    MainReturn([m EXCEPT !.out = IF ~m.quiet /\ r = EXIT_SUCCESS
                                  THEN Append(@, "programmed") ELSE @], r)

MainInit ==
    /\ twin \in {Started(opts, file) : opts \in OptionLists, file \in Files}
    /\ twin.file.name = "rbf" => Len(twin.file.words) = twin.file.bytes \div 4
    /\ run = Idle

InMain(label) == twin.pc = label

\* main takes the step to m
MainBecomes(m) == twin' = m /\ UNCHANGED run

DoGetopt == InMain("getopt") /\ MainBecomes(Getopt(twin))

DoArgCheck == InMain("argcheck") /\ MainBecomes(ArgCheck(twin))

DoOpenFile == InMain("fopen") /\ MainBecomes(OpenFile(twin))

DoMalloc == InMain("malloc") /\ \E a \in MallocResults : MainBecomes(Malloc(twin, a))

DoFreadFaults == InMain("fread") /\ twin.buf = 0 /\ MainBecomes(FreadFaults(twin))

\* fread returns the bytes of the file, up to the buffer's size; through a
\* null buf it may also return 0 (the read fails)
DoFread ==
    /\ InMain("fread")
    /\ LET whole == IF twin.file.bytes < BufBytes THEN twin.file.bytes ELSE BufBytes
       IN  MainBecomes(Fread(twin, IF twin.buf = 0 THEN 0 ELSE whole))

DoAlignCheck == InMain("aligncheck") /\ MainBecomes(AlignCheck(twin))

DoLengthCheck == InMain("lencheck") /\ MainBecomes(LengthCheck(twin))

DoCallLoadFPGA ==
    /\ InMain("call")
    /\ \E ctrl0 \in CtrlInitValues : run' = CallLoadFPGA(twin, ctrl0)
    /\ twin' = [twin EXCEPT !.pc = "called"]

DoAfterLoadFPGA ==
    /\ InMain("called") /\ run.pc = "done"
    /\ MainBecomes(AfterLoadFPGA(twin, run.ret))

MainNext ==
    \/ DoGetopt \/ DoArgCheck \/ DoOpenFile \/ DoMalloc \/ DoFreadFaults \/ DoFread
    \/ DoAlignCheck \/ DoLengthCheck \/ DoCallLoadFPGA \/ DoAfterLoadFPGA
    \/ (run.pc # "idle" /\ Next)

MainSpec == MainInit /\ [][MainNext]_vars

----------------------------------------------------------------------------
(* Reading a run's log *)

IsWrite(e) == e[1] = "w"

IsCheck(e) == e[1] = "chk"

\* the register writes of the run, in order
Writes(s) == SelectSeq(s.log, IsWrite)

\* the pass/fail decisions of the run, in order
Checks(s) == SelectSeq(s.log, IsCheck)

IsDataWrite(e) == e[1] = "w" /\ e[2] = "data"

\* the words written to the configuration data port, in order
DataWords(s) ==
    LET w == SelectSeq(s.log, IsDataWrite) IN [k \in 1 .. Len(w) |-> w[k][3]]

IsCtrlWrite(e) == e[1] = "w" /\ e[2] = "ctrl"

Has(val, bit) == BitAnd(val, bit) = bit

\* the lines the five failure sites print, by phase: Reset, Configuration,
\* Data-accept, Initialization (DCLK), User
FailureLineOf ==
    <<"reset_failed", "config_failed", "init_failed", "dclk_failed", "user_failed">>

IsFailureLine(l) == \E k \in 1 .. Len(FailureLineOf) : FailureLineOf[k] = l

FailureLines(s) == SelectSeq(s.out, IsFailureLine)

\* what each phase's check reads when it passes
PassOf ==
    <<<<"chk", "stat", mode_reset>>, <<"chk", "stat", mode_config>>,
      <<"chk", "gpio_ext_porta", cd + ns>>, <<"chk", "dclkstat", dcntdone>>,
      <<"chk", "stat", mode_user>>>>

Returned(s) == s.pc = "done"

----------------------------------------------------------------------------
(* C1: a run ends with exactly one outcome: success, returned only after   *)
(* the mode field was read back as User, with no failure line printed; or  *)
(* EXIT_FAILURE with exactly one failure line, that of one of the five     *)
(* phases.  Until it returns the run has reported neither.                 *)
C1_OneOutcome ==
    /\ ~Returned(run) => run.ret = Running /\ FailureLines(run) = <<>>
    /\ Returned(run) =>
        \/ /\ run.ret = EXIT_SUCCESS
           /\ FailureLines(run) = <<>>
           /\ Len(Checks(run)) > 0
           /\ Checks(run)[Len(Checks(run))] = <<"chk", "stat", mode_user>>
        \/ /\ run.ret = EXIT_FAILURE
           /\ Len(FailureLines(run)) = 1
           /\ IsFailureLine(FailureLines(run)[1])

C1_Witness ==
    Returned(run) /\ run.ret = EXIT_SUCCESS /\ Len(run.rbf_data) > 1

----------------------------------------------------------------------------
(* C2: as long as no read of stat since nCONFIG was asserted has returned  *)
(* Reset mode, nCONFIG is not released, axicfgen is not set and nothing is *)
(* written to the data port; and if the run returns in that case, it       *)
(* returns the Reset-phase failure.                                        *)
NconfigReleased(s) ==
    \E a, b \in 1 .. Len(s.log) :
        /\ a < b
        /\ IsCtrlWrite(s.log[a]) /\ Has(s.log[a][3], nconfigpull)
        /\ IsCtrlWrite(s.log[b]) /\ ~Has(s.log[b][3], nconfigpull)

AxicfgenSet(s) ==
    \E a \in 1 .. Len(s.log) : IsCtrlWrite(s.log[a]) /\ Has(s.log[a][3], axicfgen)

C2_NoResetNoLaterPhase ==
    ~run.sawReset =>
        /\ ~NconfigReleased(run)
        /\ ~AxicfgenSet(run)
        /\ DataWords(run) = <<>>
        /\ Returned(run) =>
            run.ret = EXIT_FAILURE /\ FailureLines(run) = <<"reset_failed">>

C2_Witness == Returned(run) /\ ~run.sawReset /\ Has(run.ctrl, nconfigpull)

----------------------------------------------------------------------------
(* C3: while the run is in the port-A poll after a sample, that sample     *)
(* read CONF_DONE = 1 and nSTATUS = 1: a sample that read either bit as 0  *)
(* ended the run at once.                                                  *)
PortASampled(s) == (s.pc = "step11" /\ s.i > 0) \/ s.pc = "step11chk"

C3_RejectedAtOnce ==
    PortASampled(run) => Has(run.status, ns) /\ Has(run.status, cd)

----------------------------------------------------------------------------
(* C4: the words written to the data port are, in order, the first words   *)
(* of the image, one write per word read; once streaming is over they are  *)
(* exactly the N words of the image; nothing is written to the data port   *)
(* before axicfgen is set.                                                 *)
C4_StreamInOrder ==
    /\ Len(DataWords(run)) <= run.rbf_size
    /\ DataWords(run) = SubSeq(run.rbf_data, 1, Len(DataWords(run)))
    /\ run.rp = Len(DataWords(run))
    /\ Len(run.rbf_data) = run.rbf_size
    /\ ~AxicfgenSet(run) => DataWords(run) = <<>>
    /\ AxicfgenSet(run) /\ run.pc # "step10" => DataWords(run) = run.rbf_data

C4_Witness ==
    /\ run.pc = "step11"
    /\ Len(DataWords(run)) > 1
    /\ DataWords(run)[1] # DataWords(run)[2]

----------------------------------------------------------------------------
(* C5: when a run has returned success, the last entry of its log is the   *)
(* write to ctrl that clears EN, the ctrl write before it had EN set, and  *)
(* ctrl holds EN = 0.                                                      *)
CtrlWrites(s) == SelectSeq(s.log, IsCtrlWrite)

C5_EnClearedLast ==
    Returned(run) /\ run.ret = EXIT_SUCCESS =>
        LET last == run.log[Len(run.log)]
            cw == CtrlWrites(run)
        IN  /\ IsCtrlWrite(last)
            /\ ~Has(last[3], en)
            /\ Len(cw) > 1
            /\ Has(cw[Len(cw) - 1][3], en)
            /\ last[3] = BitClear(cw[Len(cw) - 1][3], en)
            /\ run.ctrl = last[3]

C5_Witness ==
    Returned(run) /\ run.ret = EXIT_SUCCESS /\ Has(run.ctrl, cdratio)

----------------------------------------------------------------------------
(* C6: when a run has failed it has returned, the last entry of its log is *)
(* the check that failed (nothing was written after it), every earlier     *)
(* phase was checked once and passed, and EN is still 1 as last written.   *)
C6_FailReturnsAtOnce ==
    run.ret = EXIT_FAILURE =>
        LET c == Checks(run)
            n == Len(c)
            cw == CtrlWrites(run)
        IN  /\ Returned(run)
            /\ n \in 1 .. Len(PassOf)
            /\ run.log[Len(run.log)] = c[n]
            /\ c[n][2] = PassOf[n][2]
            /\ c[n] # PassOf[n]
            /\ \A k \in 1 .. n - 1 : c[k] = PassOf[k]
            /\ Len(cw) > 0
            /\ Has(cw[Len(cw)][3], en)
            /\ run.ctrl = cw[Len(cw)][3]

C6_Witness ==
    run.ret = EXIT_FAILURE /\ Len(Checks(run)) = 4 /\ AxicfgenSet(run)

----------------------------------------------------------------------------
(* C7: a run that returned success decided exactly five checks, in order:  *)
(* mode = Reset read while nCONFIG was asserted, mode = Configuration read *)
(* after nCONFIG was released, CONF_DONE = nSTATUS = 1 read after the      *)
(* whole image was written, DCLK-done = 1 read after dclkcnt was armed,    *)
(* mode = User read after DCLK-done was acknowledged.                      *)
Pos(s, e) == CHOOSE k \in 1 .. Len(s.log) : s.log[k] = e

\* the value of the last ctrl write before position k of the log
CtrlBefore(s, k) ==
    LET ks == {j \in 1 .. k - 1 : IsCtrlWrite(s.log[j])}
    IN  s.log[CHOOSE j \in ks : \A h \in ks : h <= j][3]

C7_SuccessOrder ==
    run.ret = EXIT_SUCCESS =>
        /\ Checks(run) = PassOf
        /\ LET L == run.log
               p1 == Pos(run, PassOf[1])
               p2 == Pos(run, PassOf[2])
               p3 == Pos(run, PassOf[3])
               p4 == Pos(run, PassOf[4])
               p5 == Pos(run, PassOf[5])
           IN  /\ Has(CtrlBefore(run, p1), nconfigpull)
               /\ \E j \in p1 + 1 .. p2 - 1 :
                     IsCtrlWrite(L[j]) /\ ~Has(L[j][3], nconfigpull)
               /\ ~Has(CtrlBefore(run, p2), nconfigpull)
               /\ DataWords(run) = run.rbf_data
               /\ \A j \in 1 .. Len(L) : IsDataWrite(L[j]) => p2 < j /\ j < p3
               /\ \E j \in p3 + 1 .. p4 - 1 : L[j] = <<"w", "dclkcnt", DclkCount>>
               /\ \E j \in p4 + 1 .. p5 - 1 : L[j] = <<"w", "dclkstat", 1>>

C7_Witness == run.ret = EXIT_SUCCESS /\ run.debug /\ run.rbf_size = 1

----------------------------------------------------------------------------
(* C8, as claimed: the result of a failed run differs from the result      *)
(* every other kind of failure returns, so the result tells the phase.     *)
C8_DistinctResults ==
    run.ret = EXIT_FAILURE =>
        \A k \in 1 .. Len(FailureLineOf) :
            FailureLineOf[k] # FailureLines(run)[1] =>
                FailureResult(FailureLineOf[k]) # run.ret

(* C8, amended: a run that returned printed a failure line exactly when it *)
(* returned EXIT_FAILURE, the one result of every kind of failure; the     *)
(* line printed is the line of the phase whose check failed.               *)
C8_FailureIsOneResult ==
    Returned(run) =>
        /\ run.ret \in {EXIT_SUCCESS, EXIT_FAILURE}
        /\ run.ret = EXIT_FAILURE <=> FailureLines(run) # <<>>
        /\ run.ret = EXIT_FAILURE =>
            /\ Len(Checks(run)) \in 1 .. Len(FailureLineOf)
            /\ FailureLines(run) = <<FailureLineOf[Len(Checks(run))]>>

C8_Witness ==
    Returned(run) /\ run.ret = EXIT_FAILURE /\ FailureLines(run) = <<"user_failed">>

----------------------------------------------------------------------------
(* C9 (PairSpec): the run that read other straps than 0x0a is at the same  *)
(* step as the run that read 0x0a, has made the same register writes and   *)
(* decisions, has the same result, and has printed the same lines but for  *)
(* the strap warning, which it printed first.                              *)
IsNotWarning(l) == l # "msel_warning"

PastMsel(s) == s.pc \notin {"open", "mmap", "msel", "crashed"}

C9_MselOnlyWarns ==
    /\ twin.pc = run.pc
    /\ twin.ret = run.ret
    /\ twin.log = run.log
    /\ Writes(twin) = Writes(run)
    /\ twin.ctrl = run.ctrl
    /\ SelectSeq(twin.out, IsNotWarning) = run.out
    /\ PastMsel(twin) => Len(twin.out) = Len(run.out) + 1 /\ twin.out[1] = "msel_warning"

C9_Witness ==
    /\ Returned(twin) /\ twin.ret = EXIT_SUCCESS
    /\ twin.out[1] = "msel_warning"
    /\ run.out = SelectSeq(run.out, IsNotWarning)
    /\ Len(Writes(twin)) > 0

----------------------------------------------------------------------------
(* C10 (FairSpec): every run ends, returned or killed; in each poll loop   *)
(* the count of samples taken that did not end the loop stays within the   *)
(* loop's budget, 1000 for the Reset, Configuration, port-A and User       *)
(* polls and 100 for the DCLK poll.                                        *)
Terminated == run.pc \in {"done", "crashed"}

PollBounds ==
    /\ run.pc = "step5" => run.nreads <= ResetPollBudget
    /\ run.pc = "step7" => run.nreads <= ConfigPollBudget
    /\ run.pc = "step11" => run.nreads <= PortAPollBudget
    /\ run.pc = "step14" => run.nreads <= DclkPollBudget
    /\ run.pc = "step16" => run.nreads <= UserPollBudget
    /\ run.pc \notin {"step5", "step7", "step11", "step14", "step16"} => run.nreads = 0

C10_Terminates == []PollBounds /\ <>Terminated

C10_Witness ==
    /\ run.pc = "step16" /\ run.nreads = UserPollBudget
    /\ Len(Writes(run)) > 0

----------------------------------------------------------------------------
(* C11 (DecodeSpec): the label print_state returned for the stat register  *)
(* as it stands is the label of the 3-bit mode field: Off, Reset,          *)
(* Configuration, Initialization, User for 0..4, Undetermined for 5, 6, 7, *)
(* whatever the bits above the mode field (the MSEL bits) are.             *)
ModeLabels == <<"Off", "Reset", "Configuration", "Initialization", "User">>

C11_DecodeTable ==
    run.calls > 0 /\ ~run.changed =>
        \E m \in 0 .. 7, hi \in 0 .. 31 :
            /\ run.stat = 8 * hi + m
            /\ run.label = IF m < 5 THEN ModeLabels[m + 1] ELSE "Undetermined"

C11_Witness ==
    /\ run.calls > 0 /\ ~run.changed
    /\ run.stat = 8 * MselExpected + 6
    /\ run.label = "Undetermined"

----------------------------------------------------------------------------
(* C12 (DecodeSpec): a call of print_state leaves the stat and ctrl        *)
(* registers as they were, and when stat did not change between two calls  *)
(* the second call returned the label the first returned.                  *)
C12_SameLabel == run.calls > 1 /\ run.same => run.label = run.prev

C12_CallKeepsRegisters ==
    run'.calls # run.calls => run'.stat = run.stat /\ run'.ctrl = run.ctrl

C12_PureQuery == []C12_SameLabel /\ [][C12_CallKeepsRegisters]_vars

C12_Witness ==
    /\ run.calls > 1 /\ run.same
    /\ run.label = "User" /\ run.prev = "User"
    /\ run.stat > 8

----------------------------------------------------------------------------
(* C13 (MainSpec): loadFPGA is entered only after fread returned a         *)
(* non-zero count of bytes that is a multiple of 4 into a buffer whose     *)
(* address is a multiple of 4, and then with that count divided by 4 as    *)
(* rbf_size and that many words; when fread returned zero bytes, or the    *)
(* address or the count is not a multiple of 4, main ends with             *)
(* EXIT_FAILURE and loadFPGA is never entered, so no register is accessed. *)
ImageRefused(m) ==
    m.read /\ (m.nbytes = 0 \/ m.buf % 4 # 0 \/ m.nbytes % 4 # 0)

PastChecks(m) == m.pc \in {"called", "exit"} /\ m.read /\ ~ImageRefused(m)

C13_CallerChecksImage ==
    /\ run.pc # "idle" =>
        /\ twin.read /\ ~ImageRefused(twin)
        /\ run.rbf_size = twin.nbytes \div 4
        /\ 4 * run.rbf_size = twin.nbytes
        /\ Len(run.rbf_data) = run.rbf_size
        /\ run.debug = twin.debug
    /\ ImageRefused(twin) =>
        /\ run.pc = "idle"
        /\ twin.pc \in {"aligncheck", "lencheck", "exit"}
        /\ twin.pc = "exit" => twin.ret = EXIT_FAILURE
    /\ PastChecks(twin) => run.pc # "idle"

C13_Witness ==
    /\ twin.pc = "exit" /\ ImageRefused(twin)
    /\ twin.nbytes > 4 /\ twin.buf % 4 = 0
    /\ twin.ret = EXIT_FAILURE /\ run.pc = "idle"

----------------------------------------------------------------------------
(* C14: gpio_porta_eoi is written, with all ones, only after the check     *)
(* that read mode = Configuration; a ctrl write sets axicfgen only after   *)
(* that write; and every write to the data port is made while the last     *)
(* value written to ctrl has nconfigpull = 0 and axicfgen = 1.             *)
IsEoiWrite(e) == e[1] = "w" /\ e[2] = "gpio_porta_eoi"

C14_StreamGated ==
    \A j \in 1 .. Len(run.log) :
        LET e == run.log[j]
        IN  /\ IsEoiWrite(e) =>
                /\ e[3] = EoiAll
                /\ \E k \in 1 .. j - 1 : run.log[k] = PassOf[2]
            /\ IsCtrlWrite(e) /\ Has(e[3], axicfgen) =>
                \E k \in 1 .. j - 1 : IsEoiWrite(run.log[k])
            /\ IsDataWrite(e) =>
                /\ Has(CtrlBefore(run, j), axicfgen)
                /\ ~Has(CtrlBefore(run, j), nconfigpull)
                /\ \E k \in 1 .. j - 1 : IsEoiWrite(run.log[k])

C14_Witness ==
    /\ run.pc = "step13a" /\ ~Has(run.ctrl, axicfgen)
    /\ Len(DataWords(run)) = 2

----------------------------------------------------------------------------
(* C15: until step 0.a the run has written no register; from then on the   *)
(* first register write of the run is module <- 0 in the system manager,   *)
(* and it is the only write to a register of the system manager.           *)
IsSysmgrWrite(e) ==
    e[1] = "w" /\ e[2] \notin {"ctrl", "gpio_porta_eoi", "data", "dclkstat", "dclkcnt"}

C15_SysmgrOnceFirst ==
    IF run.pc \in {"open", "mmap", "msel", "step0a", "crashed"}
    THEN Writes(run) = <<>>
    ELSE /\ Len(Writes(run)) > 0
         /\ Writes(run)[1] = <<"w", "sysmgr.module", 0>>
         /\ Len(SelectSeq(run.log, IsSysmgrWrite)) = 1

C15_Witness ==
    /\ Returned(run) /\ run.ret = EXIT_SUCCESS
    /\ Len(CtrlWrites(run)) > 1
    /\ Writes(run)[1] = <<"w", "sysmgr.module", 0>>

----------------------------------------------------------------------------
(* C16 (CtrlPairSpec): after the first write to ctrl, the cdratio and      *)
(* cfgwdth fields written are the same in two runs, whatever ctrl held     *)
(* when each was entered.                                                  *)
C16_FieldsFixed ==
    Len(CtrlWrites(run)) > 0 /\ Len(CtrlWrites(twin)) > 0 =>
        BitAnd(CtrlWrites(run)[1][3], cdratio + cfgwdth)
            = BitAnd(CtrlWrites(twin)[1][3], cdratio + cfgwdth)

----------------------------------------------------------------------------
(* C17: the first write to ctrl (cdratio/cfgwdth) does not set EN, the     *)
(* second (nCE <- 0) does not set EN either, and every write with EN = 1   *)
(* comes after a write that had nCE = 0 and EN = 0.                        *)
C17_EnAfterNce ==
    LET cw == CtrlWrites(run)
    IN  /\ Len(cw) > 0 => ~Has(cw[1][3], en)
        /\ Len(cw) > 1 => ~Has(cw[2][3], en) /\ ~Has(cw[2][3], nce)
        /\ \A j \in 1 .. Len(cw) :
              Has(cw[j][3], en) =>
                  \E k \in 1 .. j - 1 : ~Has(cw[k][3], nce) /\ ~Has(cw[k][3], en)

----------------------------------------------------------------------------
(* C18: up to step 4 no write to ctrl has nconfigpull = 1 and no Reset has *)
(* been read; exactly one write sets it, made when the last value written  *)
(* to ctrl had EN = 1, and during the whole Reset poll ctrl holds          *)
(* nconfigpull = 1 and EN = 1; every later write to ctrl has               *)
(* nconfigpull = 0 and comes after the check that read mode = Reset; a run *)
(* that failed in the Reset phase never released nCONFIG, every run past   *)
(* that phase did.                                                         *)
NconfigAsserts(s) ==
    {j \in 1 .. Len(s.log) : IsCtrlWrite(s.log[j]) /\ Has(s.log[j][3], nconfigpull)}

BeforeAssert(s) ==
    s.pc \in {"open", "mmap", "msel", "crashed", "step0a", "step1", "step2",
              "step3", "step4"}

InResetPhase(s) ==
    \/ s.pc \in {"step5", "step5chk", "step5dbg", "step6"}
    \/ Returned(s) /\ FailureLines(s) = <<"reset_failed">>

C18_NconfigPulse ==
    LET L == run.log
        set == NconfigAsserts(run)
    IN  /\ Cardinality(set) <= 1
        /\ BeforeAssert(run) => set = {} /\ ~run.sawReset
        /\ ~BeforeAssert(run) => set # {}
        /\ \A j \in set :
              /\ Has(CtrlBefore(run, j), en) /\ Has(L[j][3], en)
              /\ \A k \in j + 1 .. Len(L) :
                    IsCtrlWrite(L[k]) =>
                        /\ ~Has(L[k][3], nconfigpull)
                        /\ \E h \in j + 1 .. k - 1 : L[h] = PassOf[1]
        /\ InResetPhase(run) =>
              Has(run.ctrl, nconfigpull) /\ Has(run.ctrl, en)
        /\ ~BeforeAssert(run) /\ ~InResetPhase(run) =>
              /\ ~Has(run.ctrl, nconfigpull)
              /\ \E j \in set : \E k \in j + 1 .. Len(L) : IsCtrlWrite(L[k])

C18_Witness ==
    /\ Returned(run) /\ FailureLines(run) = <<"config_failed">>
    /\ NconfigAsserts(run) # {}
    /\ ~Has(run.ctrl, nconfigpull)

----------------------------------------------------------------------------
(* C19: the port-A poll is left either by a sample that read CONF_DONE = 1 *)
(* and nSTATUS = 1, or with the budget spent after a last sample that read *)
(* exactly one of them as 1.  In the first case the run passes the check   *)
(* on that very sample and its next register access is the write that      *)
(* clears axicfgen: port A is not read again.  In the second the run       *)
(* returns the Data-accept failure, and ctrl keeps axicfgen = 1.           *)
C19_AfterPoll ==
    /\ run.pc \in {"step11dbg", "step12"} =>
        /\ run.status = cd + ns
        /\ run.log[Len(run.log)] = PassOf[3]
        /\ Has(run.ctrl, axicfgen)
    /\ Returned(run) /\ FailureLines(run) = <<"init_failed">> =>
        /\ Has(run.ctrl, axicfgen)
        /\ \A j \in 1 .. Len(run.log) :
              IsCtrlWrite(run.log[j]) /\ ~Has(run.log[j][3], axicfgen) =>
                  \E k \in j + 1 .. Len(run.log) :
                      IsCtrlWrite(run.log[k]) /\ Has(run.log[k][3], axicfgen)

C19_PollStep ==
    /\ run.pc = "step11" /\ run'.pc = "step11chk" =>
        \/ run'.status = cd + ns /\ run.i < PortAPollBudget
        \/ /\ run.i = PortAPollBudget /\ run.nreads = PortAPollBudget
           /\ run'.status = run.status /\ run.status \in {ns, cd}
    /\ run.pc = "step11chk" =>
        IF run.status = cd + ns
        THEN /\ run'.pc \in {"step11dbg", "step12"}
             /\ run'.status = run.status
             /\ run'.log = Append(run.log, PassOf[3])
        ELSE /\ Returned(run') /\ run'.ret = EXIT_FAILURE
             /\ FailureLines(run') = <<"init_failed">>
             /\ run'.ctrl = run.ctrl
    /\ run.pc = "step11dbg" =>
        run'.pc = "step12" /\ run'.status = run.status /\ run'.log = run.log
    /\ run.pc = "step12" =>
        /\ run'.log = Append(run.log, <<"w", "ctrl", BitClear(run.ctrl, axicfgen)>>)
        /\ run'.status = run.status

C19_PortAPollEnds == []C19_AfterPoll /\ [][C19_PollStep]_vars

C19_Witness ==
    /\ Returned(run) /\ FailureLines(run) = <<"init_failed">>
    /\ Len(Checks(run)) = 3
    /\ Checks(run)[3][3] \in {ns, cd}
    /\ Has(run.ctrl, axicfgen)

----------------------------------------------------------------------------
(* C20: dclkcnt is written at most once, with 4 whatever the image, after  *)
(* the write that cleared axicfgen, and exactly once in a run that got     *)
(* past step 13b.  The two log entries before it are the test of dclkstat  *)
(* and, when the test read DCLK-done = 1, the write dclkstat <- 1; when it *)
(* read 0, no write to dclkstat precedes the arming.  After the arming     *)
(* dclkstat is written at most once more, right after the check that read  *)
(* DCLK-done = 1, and that write is made when the User poll starts.        *)
IsDclkcntWrite(e) == e[1] = "w" /\ e[2] = "dclkcnt"

IsDclkstatWrite(e) == e[1] = "w" /\ e[2] = "dclkstat"

PastArming(s) ==
    \/ s.pc \in {"step14", "step14chk", "step15", "step16", "step16chk",
                  "step16dbg", "step17", "cleanup"}
    \/ Returned(s) /\ Len(Checks(s)) > 3

PastAck(s) ==
    \/ s.pc \in {"step16", "step16chk", "step16dbg", "step17", "cleanup"}
    \/ Returned(s) /\ Len(Checks(s)) > 4

C20_DclkArming ==
    LET L == run.log
        arm == {j \in 1 .. Len(L) : IsDclkcntWrite(L[j])}
        ack == {k \in 1 .. Len(L) :
                    IsDclkstatWrite(L[k]) /\ \E j \in arm : j < k}
    IN  /\ Cardinality(arm) <= 1
        /\ PastArming(run) <=> arm # {}
        /\ \A j \in arm :
              /\ L[j][3] = DclkCount
              /\ ~Has(CtrlBefore(run, j), axicfgen)
              /\ \E k \in 1 .. j - 1 : IsCtrlWrite(L[k]) /\ Has(L[k][3], axicfgen)
              /\ \/ /\ L[j - 1] = <<"test", "dclkstat", 0>>
                    /\ \A k \in 1 .. j - 1 : ~IsDclkstatWrite(L[k])
                 \/ /\ L[j - 1] = <<"w", "dclkstat", 1>>
                    /\ L[j - 2][1] = "test" /\ L[j - 2][2] = "dclkstat"
                    /\ Has(L[j - 2][3], dcntdone)
                    /\ \A k \in 1 .. j - 2 : ~IsDclkstatWrite(L[k])
        /\ Cardinality(ack) <= 1
        /\ \A k \in ack : L[k][3] = 1 /\ L[k - 1] = PassOf[4]
        /\ PastAck(run) <=> ack # {}
        /\ run.pc = "step16" => IsDclkstatWrite(L[Len(L)])

C20_Witness ==
    /\ Returned(run) /\ run.ret = EXIT_SUCCESS /\ run.rbf_size = 2
    /\ \E j \in 1 .. Len(run.log) : run.log[j] = <<"test", "dclkstat", dcntdone>>
    /\ Len(SelectSeq(run.log, IsDclkstatWrite)) = 2

----------------------------------------------------------------------------
(* C21: every step that decides a check, and every step that prints the    *)
(* decoded state, reads for it the register the decision or the print is   *)
(* about.                                                                  *)
C21_DecidesOnRead ==
    /\ Len(run'.log) = Len(run.log) + 1 /\ IsCheck(run'.log[Len(run'.log)]) =>
          RegisterRead(run) = run'.log[Len(run'.log)][2]
    /\ Len(run'.out) = Len(run.out) + 1 /\ run'.out[Len(run'.out)] = "state" =>
          RegisterRead(run) = "stat"

C21_NoCachedValue == [][C21_DecidesOnRead]_vars

----------------------------------------------------------------------------
(* C22: past the open and the mmap the run holds a valid mapping: a run    *)
(* whose open or mmap failed never gets to a register access, and no run   *)
(* is killed on one.                                                       *)
C22_MappingChecked ==
    /\ run.pc \notin {"open", "mmap"} => run.base \in {"mapped", "unmapped"}
    /\ run.pc # "crashed"

----------------------------------------------------------------------------
(* C24, as claimed: when the run has returned, the last value it wrote to  *)
(* ctrl has axicfgen = 0.                                                  *)
LastCtrlWritten(s) == CtrlWrites(s)[Len(CtrlWrites(s))][3]

C24_AxicfgenClearAtReturn ==
    Returned(run) /\ CtrlWrites(run) # <<>> =>
        ~Has(LastCtrlWritten(run), axicfgen)

(* C24, amended: the last value the run wrote to ctrl has axicfgen = 1     *)
(* exactly from step 9 to step 12 and after a return with the Data-accept  *)
(* failure; after every other return it has axicfgen = 0.                  *)
C24_AxicfgenLeftOnlyByDataAccept ==
    LET cw == CtrlWrites(run)
    IN  /\ Returned(run) => cw # <<>>
        /\ cw # <<>> =>
            /\ run.ctrl = cw[Len(cw)][3]
            /\ Has(run.ctrl, axicfgen) <=>
                  \/ run.pc \in {"step10", "step11", "step11chk", "step11dbg",
                                  "step12"}
                  \/ Returned(run) /\ FailureLines(run) = <<"init_failed">>

C24_Witness ==
    /\ Returned(run) /\ FailureLines(run) = <<"init_failed">>
    /\ Has(LastCtrlWritten(run), axicfgen)
    /\ DataWords(run) = run.rbf_data

----------------------------------------------------------------------------
(* C25: when a run that had the registers mapped has returned, the mapping *)
(* is unmapped and the descriptor of /dev/mem is closed.                   *)
C25_ReleasedAtReturn ==
    Returned(run) => run.base = "unmapped" /\ run.fd = "closed"

----------------------------------------------------------------------------
(* C23 (WatchSpec): a run whose Reset, Configuration or User poll was left *)
(* by a sample that read the wanted mode does not return the failure of    *)
(* that phase.                                                             *)
C23_HitMeansPassed ==
    Returned(run) /\ run.ret = EXIT_FAILURE => ~twin.hit

----------------------------------------------------------------------------
(* C26: each single-bit step of ctrl (clear nCE, set EN, set nconfigpull,  *)
(* clear nconfigpull, set AXICFGEN, clear AXICFGEN, clear EN) appends one  *)
(* write of ctrl whose value has the step's own bit at its new level and   *)
(* every other bit as ctrl held it when the step read it; no step after    *)
(* step 1 changes the cdratio and cfgwdth fields.  The log only grows, so  *)
(* it is enough to state this of each write of ctrl in the state its step  *)
(* leaves, and of the value ctrl holds in the state the next step reads.   *)
SingleBitSteps == <<"step1", "step2", "step3", "step4", "step6", "step9", "step12", "step17">>

\* the bit the k-th write of ctrl owns (the first is step 1's)
OwnBit == <<0, nce, en, nconfigpull, nconfigpull, axicfgen, axicfgen, en>>

\* the level the k-th write of ctrl gives its bit
OwnLevel == <<0, 0, en, nconfigpull, 0, axicfgen, 0, 0>>

\* the run is at a step that reads ctrl
ReadsCtrl(s) == \E k \in 1 .. 8 : s.pc = SingleBitSteps[k]

\* the step the run has just taken wrote ctrl
WroteCtrl(s) == s.log # <<>> /\ IsCtrlWrite(s.log[Len(s.log)])

C26_ChangesOwnBitOnly ==
    /\ ReadsCtrl(run) =>
        LET cw == CtrlWrites(run)
        IN  /\ \A k \in 1 .. 8 : run.pc = SingleBitSteps[k] => Len(cw) = k - 1
            /\ cw # <<>> => run.ctrl = cw[Len(cw)][3]
    /\ WroteCtrl(run) =>
        LET cw == CtrlWrites(run)
            n == Len(cw)
        IN  /\ n <= 8
            /\ run.ctrl = cw[n][3]
            /\ n > 1 =>
                /\ BitClear(cw[n][3], OwnBit[n]) = BitClear(cw[n - 1][3], OwnBit[n])
                /\ BitAnd(cw[n][3], OwnBit[n]) = OwnLevel[n]
                /\ BitAnd(cw[n][3], cdratio + cfgwdth)
                       = BitAnd(cw[1][3], cdratio + cfgwdth)

\* a run that made the seven single-bit writes with both fields non-zero
C26_Witness ==
    /\ Returned(run) /\ run.ret = EXIT_SUCCESS
    /\ Len(CtrlWrites(run)) = 8
    /\ BitAnd(run.ctrl, cdratio) # 0 /\ Has(run.ctrl, cfgwdth)
    /\ Has(CtrlWrites(run)[5][3], nce + en) = FALSE
    /\ DataWords(run) = run.rbf_data /\ run.rbf_data # <<>>

----------------------------------------------------------------------------
(* C27: of two calls on the same image whose registers answer alike, one   *)
(* with debug off and one with debug on, both make the same register       *)
(* writes and decisions in the same order, print the same lines but for    *)
(* the debug call's state lines, and return the same result; the debug     *)
(* call is ahead of nothing and behind only while it prints, which is one  *)
(* read of stat right after a check that passed, once per passed check of  *)
(* the Reset, Configuration, Data-accept and User phases.                  *)
IsStateLine(l) == l = "state"

IsNotStateLine(l) == l # "state"

\* the decisions that a debug print follows when they pass
IsPrintedCheck(e) == IsCheck(e) /\ e[2] # "dclkstat"

\* the call failed at a check that a debug print follows
FailedPrintedCheck(s) ==
    /\ Returned(s) /\ s.ret = EXIT_FAILURE
    /\ FailureLines(s) # <<>>
    /\ FailureLines(s) # <<"dclk_failed">>

C27_DebugOnlyAddsReads ==
    /\ twin.log = run.log
    /\ twin.ret = run.ret
    /\ twin.ctrl = run.ctrl
    /\ SelectSeq(twin.out, IsNotStateLine) = run.out
    /\ SelectSeq(run.out, IsStateLine) = <<>>
    /\ twin.pc # run.pc =>
        /\ twin.pc \in DebugSites
        /\ RegisterRead(twin) = "stat"
        /\ \A v \in Answers(twin) : run.pc = Exec(twin, v).pc
    /\ twin.pc \in DebugSites =>
        \E k \in {1, 2, 3, 5} : twin.log[Len(twin.log)] = PassOf[k]
    /\ Len(SelectSeq(twin.out, IsStateLine))
         = Len(SelectSeq(twin.log, IsPrintedCheck))
             - (IF twin.pc \in DebugSites \/ FailedPrintedCheck(twin) THEN 1 ELSE 0)

\* both calls have returned success and the debug call printed four states
C27_Witness ==
    /\ Returned(run) /\ Returned(twin)
    /\ run.ret = EXIT_SUCCESS /\ twin.ret = EXIT_SUCCESS
    /\ ~run.debug /\ twin.debug
    /\ Len(SelectSeq(twin.out, IsStateLine)) = 4
    /\ Writes(run) # <<>> /\ DataWords(twin) = twin.rbf_data

====
